---- MODULE Spec2Model ----
(***************************************************************************)
(* Student Management API (main.go): the in-memory slice `students`, the   *)
(* sync.RWMutex `mutex` guarding it, and the HTTP handlers that run one    *)
(* per request on concurrent goroutines.                                   *)
(***************************************************************************)
EXTENDS Integers, Sequences, FiniteSets, TLC

(* ---------------------------------------------------------------------- *)
(* Bounds of the model                                                     *)
(* ---------------------------------------------------------------------- *)

\* Successful creates over the Store's lifetime.
MaxCreates == 3

\* Records the Store holds at once.
MaxStudents == 2

\* The same two bounds when the requests are served one after the other.
SeqMaxCreates == 4

SeqMaxStudents == 3

\* The same two bounds of the specification with fairness.
FairMaxCreates == 2

FairMaxStudents == 2

\* Goroutines serving requests concurrently (net/http: one per request).
Procs == {"g1", "g2"}

\* The goroutine that serves every request when they come one at a time.
SeqProcs == {"g1"}

NoProc == "none"

(* ---------------------------------------------------------------------- *)
(* Data                                                                    *)
(* ---------------------------------------------------------------------- *)

\* type Student struct { ID int; Name string; Age int; Email string }
Student(id, name, age, email) ==
    [ID |-> id, Name |-> name, Age |-> age, Email |-> email]

\* Go's zero value of Student (`var newStudent Student`).
ZeroStudent == Student(0, "", 0, "")

\* strconv.Atoi on the strings the model feeds it: decimal text to int, an
\* error for anything else (the empty string included).
Decimal ==
    [s \in {"0", "1", "2", "3", "4", "5", "150", "151"} |->
        CASE s = "0" -> 0
          [] s = "1" -> 1
          [] s = "2" -> 2
          [] s = "3" -> 3
          [] s = "4" -> 4
          [] s = "5" -> 5
          [] s = "150" -> 150
          [] s = "151" -> 151]

Atoi(s) ==
    IF s \in DOMAIN Decimal
      THEN [err |-> FALSE, val |-> Decimal[s]]
      ELSE [err |-> TRUE, val |-> 0]

\* The {id} path segments requests carry: the ids a Store of this size can
\* hold, and a non-numeric segment.
PathIds == {s \in DOMAIN Decimal : Decimal[s] \in 1..MaxStudents} \cup {"abc"}

\* Request bodies: the fields as sent ("" for an absent one), `id` the "id"
\* member a JSON body may carry (0 when absent), and `bad` for a body the
\* decoder rejects (broken JSON, or a form ParseForm fails on).
Body(name, age, email, id) ==
    [bad |-> FALSE, name |-> name, age |-> age, email |-> email, id |-> id]

BadBody == [bad |-> TRUE, name |-> "", age |-> "", email |-> "", id |-> 0]

\* Two acceptable candidates at the two ends of the age range (the second
\* always sent with a foreign "id"), one body per rule of validateStudent
\* that it breaks, one that breaks the last two, one that breaks them all,
\* and the unparsable ones.
Bodies ==
    { Body("Jane", "1", "jane@x.com", 0),
      Body("Jane2", "150", "jane2@x.com", 2),
      Body("", "1", "jane@x.com", 0),
      Body("Jane", "0", "jane@x.com", 0),
      Body("Jane", "151", "jane@x.com", 0),
      Body("Jane", "1", "", 0),
      Body("Jane", "151", "", 0),
      Body("", "0", "", 0),
      Body("Jane", "", "jane@x.com", 0),
      Body("Jane", "abc", "jane@x.com", 0),
      BadBody }

ContentTypes == {"application/json", "form"}

\* Outcomes of the outbound call in callOllamaAPI.
OllamaOutcomes == {"ok", "connfail", "badstatus", "badbody"}

\* validateStudent with the lower age bound off by one (`< 0` for `<= 0`).
validateStudent_AgeZeroPasses(student) ==
    IF student.Name = "" THEN "name is required"
    ELSE IF student.Age < 0 \/ student.Age > 150
      THEN "age must be between 1 and 150"
    ELSE IF student.Email = "" THEN "email is required"
    ELSE ""

\* validateStudent letting every candidate through.
validateStudent_AcceptsAll(student) == ""

\* validateStudent without its email rule.
validateStudent_EmailOptional(student) ==
    IF student.Name = "" THEN "name is required"
    ELSE IF student.Age <= 0 \/ student.Age > 150
      THEN "age must be between 1 and 150"
    ELSE ""

\* validateStudent with the age rule tested before the name rule.
validateStudent_AgeFirst(student) ==
    IF student.Age <= 0 \/ student.Age > 150
      THEN "age must be between 1 and 150"
    ELSE IF student.Name = "" THEN "name is required"
    ELSE IF student.Email = "" THEN "email is required"
    ELSE ""

\* func validateStudent(student Student) error: "" stands for nil.
validateStudent(student) ==
    IF student.Name = "" THEN "name is required"
    ELSE IF student.Age <= 0 \/ student.Age > 150
      THEN "age must be between 1 and 150"
    ELSE IF student.Email = "" THEN "email is required"
    ELSE ""

\* The body-parsing block shared by POST and PUT: json.Decode into `base`
\* (absent members keep base's values), or ParseForm + FormValue + Atoi.
\* err = "" on success.
ParseBody(ctype, body, base) ==
    IF ctype = "application/json"
      THEN IF body.bad \/ (body.age # "" /\ Atoi(body.age).err)
             THEN [err |-> "Invalid JSON data", student |-> base]
             ELSE [err |-> "",
                   student |->
                     Student(IF body.id # 0 THEN body.id ELSE base.ID,
                             IF body.name # "" THEN body.name ELSE base.Name,
                             IF body.age # "" THEN Atoi(body.age).val
                                              ELSE base.Age,
                             IF body.email # "" THEN body.email
                                                ELSE base.Email)]
      ELSE IF body.bad
             THEN [err |-> "Invalid form data", student |-> base]
           ELSE IF body.age = ""
             THEN [err |-> "Age is required", student |-> base]
           ELSE IF Atoi(body.age).err
             THEN [err |-> "Invalid age", student |-> base]
           ELSE [err |-> "",
                 student |-> Student(base.ID, body.name,
                                     Atoi(body.age).val, body.email)]

\* `for i, student := range students { if student.ID == id {...} }`:
\* the first index (from 1) whose record has the id, 0 when the loop ends
\* without a match.
RECURSIVE ScanFrom(_, _, _)
ScanFrom(s, id, i) ==
    IF i > Len(s) THEN 0
    ELSE IF s[i].ID = id THEN i
    ELSE ScanFrom(s, id, i + 1)

\* The scan with the loop index used after the loop: the last index when
\* nothing matched.
FindIndex_LastOnMiss(s, id) ==
    IF ScanFrom(s, id, 1) = 0 THEN Len(s) ELSE ScanFrom(s, id, 1)

FindIndex(s, id) == ScanFrom(s, id, 1)

(* ---------------------------------------------------------------------- *)
(* State                                                                   *)
(* ---------------------------------------------------------------------- *)

VARIABLES
    students,   \* var students []Student, as seen through the slice header
    readers,    \* goroutines holding mutex in read mode
    writer,     \* the goroutine holding mutex in write mode, or NoProc
    pc,         \* where each goroutine is in its handler
    req,        \* each handler's locals: method, id, the Student, index i
    resp,       \* what each handler has written to its ResponseWriter
    committed,  \* history: the Store as the completed writes left it
    nCreates,   \* history: number of completed creates
    born        \* history: for each slot of `students`, the rank among all
                \* creates of the create that made the record in it

vars ==
    <<students, readers, writer, pc, req, resp, committed, nCreates, born>>

hist == <<committed, nCreates, born>>

NoReq == [method |-> "", id |-> 0, student |-> ZeroStudent, i |-> 0]
NoResp == [status |-> 0, msg |-> "", body |-> <<>>]

Reply(status, msg, body) == [status |-> status, msg |-> msg, body |-> body]

Init ==
    /\ students = <<>>
    /\ readers = {}
    /\ writer = NoProc
    /\ pc = [p \in Procs |-> "idle"]
    /\ req = [p \in Procs |-> NoReq]
    /\ resp = [p \in Procs |-> NoResp]
    /\ committed = <<>>
    /\ nCreates = 0
    /\ born = <<>>

(* ---------------------------------------------------------------------- *)
(* sync.RWMutex                                                            *)
(* ---------------------------------------------------------------------- *)

\* A write lock that does not wait for the readers to leave.
CanLock_IgnoresReaders == writer = NoProc

\* mutex.Lock() returns only when no reader and no writer holds the lock.
CanLock == writer = NoProc /\ readers = {}

\* A read lock that does not wait for the writer to leave.
CanRLock_IgnoresWriter == TRUE

\* mutex.RLock() returns only when no writer holds the lock.
CanRLock == writer = NoProc

\* Handlers that take the lock in write mode / in read mode.
WriteMethods == {"POST", "PUT", "DELETE"}
ReadMethods == {"LIST", "GET", "SUMMARY"}

\* goroutine p is between acquiring and releasing mutex.
InCS(p) == pc[p] \in {"cs", "cs2", "unlock"}

\* Creates that passed validation and have not appended yet.
PendingCreates ==
    {q \in Procs : req[q].method = "POST" /\ pc[q] \in {"lock", "cs", "cs2"}}

(* ---------------------------------------------------------------------- *)
(* Request entry: routing, id and body parsing, validation                 *)
(* ---------------------------------------------------------------------- *)

Enter(p, method, id, student) ==
    /\ pc' = [pc EXCEPT ![p] = "lock"]
    /\ req' = [req EXCEPT ![p] = [method |-> method, id |-> id,
                                  student |-> student, i |-> 0]]
    /\ resp' = [resp EXCEPT ![p] = NoResp]

Reject(p, method, id, student, status, msg) ==
    /\ pc' = [pc EXCEPT ![p] = "done"]
    /\ req' = [req EXCEPT ![p] = [method |-> method, id |-> id,
                                  student |-> student, i |-> 0]]
    /\ resp' = [resp EXCEPT ![p] = Reply(status, msg, <<>>)]

\* GET /students: handleStudents is entered, nothing to parse.
ListStart(p) ==
    /\ pc[p] = "idle"
    /\ Enter(p, "LIST", 0, ZeroStudent)
    /\ UNCHANGED <<students, readers, writer, hist>>

\* POST /students up to the validation: parse the body, validate. A valid
\* create is let in while the Store is below the bounds given.
CreateStartUpTo(p, maxCreates, maxStudents) ==
    /\ pc[p] = "idle"
    /\ \E ctype \in ContentTypes, body \in Bodies :
         LET parsed == ParseBody(ctype, body, ZeroStudent)
             verr == validateStudent(parsed.student)
         IN  IF parsed.err # ""
               THEN Reject(p, "POST", 0, ZeroStudent, 400, parsed.err)
             ELSE IF verr # ""
               THEN Reject(p, "POST", 0, parsed.student, 400, verr)
             ELSE /\ nCreates + Cardinality(PendingCreates) < maxCreates
                  /\ Len(committed) + Cardinality(PendingCreates)
                       < maxStudents
                  /\ Enter(p, "POST", 0, parsed.student)
    /\ UNCHANGED <<students, readers, writer, hist>>

CreateStart(p) == CreateStartUpTo(p, MaxCreates, MaxStudents)

SeqCreateStart(p) == CreateStartUpTo(p, SeqMaxCreates, SeqMaxStudents)

\* GET /students/{id} up to the lock: parse the id.
GetStart(p) ==
    /\ pc[p] = "idle"
    /\ \E raw \in PathIds :
         IF Atoi(raw).err
           THEN Reject(p, "GET", 0, ZeroStudent, 400, "Invalid ID")
         ELSE Enter(p, "GET", Atoi(raw).val, ZeroStudent)
    /\ UNCHANGED <<students, readers, writer, hist>>

\* The PUT handler without the reset: the body's "id" stays.
ResetID_Missing(student, id) == student

\* `updatedStudent.ID = id // Ensure ID is set correctly`, after the JSON
\* decode that may have overwritten it with the body's "id".
ResetID(student, id) == [student EXCEPT !.ID = id]

\* PUT /students/{id} up to the lock: parse the id, parse the body into
\* updatedStudent (ID preset to the path id, and reset to it after a JSON
\* decode), validate.
PutStart(p) ==
    /\ pc[p] = "idle"
    /\ \E raw \in PathIds, ctype \in ContentTypes, body \in Bodies :
         IF Atoi(raw).err
           THEN Reject(p, "PUT", 0, ZeroStudent, 400, "Invalid ID")
         ELSE LET id == Atoi(raw).val
                  parsed == ParseBody(ctype, body,
                                      [ZeroStudent EXCEPT !.ID = id])
                  updatedStudent ==
                      IF ctype = "application/json"
                        THEN ResetID(parsed.student, id)
                        ELSE parsed.student
                  verr == validateStudent(updatedStudent)
              IN  IF parsed.err # ""
                    THEN Reject(p, "PUT", id, ZeroStudent, 400, parsed.err)
                  ELSE IF verr # ""
                    THEN Reject(p, "PUT", id, updatedStudent, 400, verr)
                  ELSE Enter(p, "PUT", id, updatedStudent)
    /\ UNCHANGED <<students, readers, writer, hist>>

\* DELETE /students/{id} up to the lock: parse the id.
DeleteStart(p) ==
    /\ pc[p] = "idle"
    /\ \E raw \in PathIds :
         IF Atoi(raw).err
           THEN Reject(p, "DELETE", 0, ZeroStudent, 400, "Invalid ID")
         ELSE Enter(p, "DELETE", Atoi(raw).val, ZeroStudent)
    /\ UNCHANGED <<students, readers, writer, hist>>

\* GET /students/{id}/summary up to the lock: parse the id.
SummaryStart(p) ==
    /\ pc[p] = "idle"
    /\ \E raw \in PathIds :
         IF Atoi(raw).err
           THEN Reject(p, "SUMMARY", 0, ZeroStudent, 400, "Invalid ID")
         ELSE Enter(p, "SUMMARY", Atoi(raw).val, ZeroStudent)
    /\ UNCHANGED <<students, readers, writer, hist>>

\* Any other method on any of the three routes.
MethodNotAllowed(p) ==
    /\ pc[p] = "idle"
    /\ Reject(p, "OTHER", 0, ZeroStudent, 405, "Method not allowed")
    /\ UNCHANGED <<students, readers, writer, hist>>

(* ---------------------------------------------------------------------- *)
(* Lock acquisition                                                        *)
(* ---------------------------------------------------------------------- *)

\* mutex.RLock() of list, get and summary.
RLock(p) ==
    /\ pc[p] = "lock"
    /\ req[p].method \in ReadMethods
    /\ CanRLock
    /\ readers' = readers \cup {p}
    /\ pc' = [pc EXCEPT ![p] = "cs"]
    /\ UNCHANGED <<students, writer, req, resp, hist>>

\* mutex.Lock() of create, update and delete.
Lock(p) ==
    /\ pc[p] = "lock"
    /\ req[p].method \in WriteMethods
    /\ CanLock
    /\ writer' = p
    /\ pc' = [pc EXCEPT ![p] = "cs"]
    /\ UNCHANGED <<students, readers, req, resp, hist>>

(* ---------------------------------------------------------------------- *)
(* The Store operations as single atomic steps (the contract of the       *)
(* Store), used only to maintain the history variable `committed`.         *)
(* ---------------------------------------------------------------------- *)

RemoveAt(s, i) == SubSeq(s, 1, i - 1) \o SubSeq(s, i + 1, Len(s))

AtomicCreate(s, cand) == Append(s, [cand EXCEPT !.ID = Len(s) + 1])

AtomicUpdate(s, id, cand) ==
    IF FindIndex(s, id) = 0 THEN s
    ELSE [s EXCEPT ![FindIndex(s, id)] = [cand EXCEPT !.ID = id]]

AtomicDelete(s, id) ==
    IF FindIndex(s, id) = 0 THEN s ELSE RemoveAt(s, FindIndex(s, id))

(* ---------------------------------------------------------------------- *)
(* Critical sections of the writers                                        *)
(* ---------------------------------------------------------------------- *)

\* The id read off the length without the + 1.
NewID_ZeroBased(s) == Len(s)

\* newStudent.ID = len(students) + 1
NewID(s) == Len(s) + 1

\* Removal by moving the last record into the hole (the order-breaking
\* idiom students[i] = students[len(students)-1]).
ShiftDown_SwapLast(s, i) == [s EXCEPT ![i] = s[Len(s)]]

\* append(students[:i], students[i+1:]...) copies the tail one slot down
\* inside the backing array; the old last slot keeps its value until the
\* shorter slice header is stored back into `students`.
ShiftDown(s, i) ==
    [k \in 1..Len(s) |-> IF k < i THEN s[k]
                         ELSE IF k < Len(s) THEN s[k + 1]
                         ELSE s[Len(s)]]

\* POST, first statement under the lock: the id is read off the length.
CreateAssignId(p) ==
    /\ pc[p] = "cs"
    /\ req[p].method = "POST"
    /\ req' = [req EXCEPT ![p].student.ID = NewID(students)]
    /\ pc' = [pc EXCEPT ![p] = "cs2"]
    /\ UNCHANGED <<students, readers, writer, resp, hist>>

\* POST, second statement under the lock: students = append(students, ...).
CreateAppend(p) ==
    /\ pc[p] = "cs2"
    /\ req[p].method = "POST"
    /\ students' = Append(students, req[p].student)
    /\ pc' = [pc EXCEPT ![p] = "unlock"]
    /\ committed' = AtomicCreate(committed, req[p].student)
    /\ nCreates' = nCreates + 1
    /\ born' = Append(born, nCreates + 1)
    /\ UNCHANGED <<readers, writer, req, resp>>

\* PUT under the lock: the scan; on a match the struct assignment
\* students[i] = updatedStudent begins (ID and Name words), on none the 404.
PutScan(p) ==
    /\ pc[p] = "cs"
    /\ req[p].method = "PUT"
    /\ LET i == FindIndex(students, req[p].student.ID)
       IN  IF i = 0
             THEN /\ resp' = [resp EXCEPT ![p] =
                                Reply(404, "Student not found", <<>>)]
                  /\ pc' = [pc EXCEPT ![p] = "unlock"]
                  /\ UNCHANGED <<students, req>>
             ELSE /\ students' = [students EXCEPT
                                    ![i].ID = req[p].student.ID,
                                    ![i].Name = req[p].student.Name]
                  /\ req' = [req EXCEPT ![p].i = i]
                  /\ pc' = [pc EXCEPT ![p] = "cs2"]
                  /\ UNCHANGED resp
    /\ UNCHANGED <<readers, writer, hist>>

\* The second half of the assignment leaving the Email word behind.
AssignRest_KeepsEmail(s, i, st) == [s EXCEPT ![i].Age = st.Age]

\* The second half of students[i] = updatedStudent: the Age and Email
\* words.
AssignRest(s, i, st) == [s EXCEPT ![i].Age = st.Age, ![i].Email = st.Email]

\* PUT under the lock: the struct assignment completes (Age and Email
\* words), and the record is encoded into the response.
PutStore(p) ==
    /\ pc[p] = "cs2"
    /\ req[p].method = "PUT"
    /\ students' = AssignRest(students, req[p].i, req[p].student)
    /\ resp' = [resp EXCEPT ![p] = Reply(200, "", <<req[p].student>>)]
    /\ pc' = [pc EXCEPT ![p] = "unlock"]
    /\ committed' = AtomicUpdate(committed, req[p].id, req[p].student)
    /\ UNCHANGED <<readers, writer, req, nCreates, born>>

\* DELETE under the lock: the scan; on a match append() shifts the tail
\* down in place, on none the 404.
DeleteScan(p) ==
    /\ pc[p] = "cs"
    /\ req[p].method = "DELETE"
    /\ LET i == FindIndex(students, req[p].id)
       IN  IF i = 0
             THEN /\ resp' = [resp EXCEPT ![p] =
                                Reply(404, "Student not found", <<>>)]
                  /\ pc' = [pc EXCEPT ![p] = "unlock"]
                  /\ UNCHANGED <<students, req, born>>
             ELSE /\ students' = ShiftDown(students, i)
                  /\ born' = ShiftDown(born, i)
                  /\ req' = [req EXCEPT ![p].i = i]
                  /\ pc' = [pc EXCEPT ![p] = "cs2"]
                  /\ UNCHANGED resp
    /\ UNCHANGED <<readers, writer, committed, nCreates>>

\* The result of append() dropped: `students` keeps its old length.
Truncate_Missing(s) == s

\* The slice header append() returns: one element shorter.
Truncate(s) == SubSeq(s, 1, Len(s) - 1)

\* DELETE under the lock: the shorter slice is stored into `students`,
\* then WriteHeader(204).
DeleteTruncate(p) ==
    /\ pc[p] = "cs2"
    /\ req[p].method = "DELETE"
    /\ students' = Truncate(students)
    /\ resp' = [resp EXCEPT ![p] = Reply(204, "", <<>>)]
    /\ pc' = [pc EXCEPT ![p] = "unlock"]
    /\ committed' = AtomicDelete(committed, req[p].id)
    /\ born' = SubSeq(born, 1, Len(born) - 1)
    /\ UNCHANGED <<readers, writer, req, nCreates>>

\* The handler returns: its locals and its ResponseWriter are gone and the
\* goroutine is free for the next request.
Return(p) ==
    /\ pc' = [pc EXCEPT ![p] = "idle"]
    /\ req' = [req EXCEPT ![p] = NoReq]
    /\ resp' = [resp EXCEPT ![p] = NoResp]

\* POST: the explicit mutex.Unlock(); the response is written afterwards.
CreateUnlock(p) ==
    /\ pc[p] = "unlock"
    /\ req[p].method = "POST"
    /\ writer' = NoProc
    /\ pc' = [pc EXCEPT ![p] = "write"]
    /\ UNCHANGED <<students, readers, req, resp, hist>>

\* The handler returning on the 404 path with the write lock still held
\* (an explicit Unlock before each return, forgotten before the last).
Unlock_LeaksOn404(p) ==
    /\ pc[p] = "unlock"
    /\ req[p].method \in {"PUT", "DELETE"}
    /\ writer' = IF resp[p].status = 404 THEN writer ELSE NoProc
    /\ Return(p)
    /\ UNCHANGED <<students, readers, hist>>

\* PUT and DELETE: the deferred mutex.Unlock() runs as the handler returns,
\* the response already written.
Unlock(p) ==
    /\ pc[p] = "unlock"
    /\ req[p].method \in {"PUT", "DELETE"}
    /\ writer' = NoProc
    /\ Return(p)
    /\ UNCHANGED <<students, readers, hist>>

\* POST after the lock: WriteHeader(201) and Encode(newStudent).
CreateWrite(p) ==
    /\ pc[p] = "write"
    /\ resp' = [resp EXCEPT ![p] = Reply(201, "", <<req[p].student>>)]
    /\ pc' = [pc EXCEPT ![p] = "done"]
    /\ UNCHANGED <<students, readers, writer, req, hist>>

(* ---------------------------------------------------------------------- *)
(* Critical sections of the readers                                        *)
(* ---------------------------------------------------------------------- *)

\* What handleStudents answers on Store contents s: the whole slice.
ListReply(s) == Reply(200, "", s)

\* What GET /students/{id} answers on Store contents s: the first record
\* with the id, or 404.
GetReply(s, id) ==
    IF FindIndex(s, id) = 0 THEN Reply(404, "Student not found", <<>>)
    ELSE Reply(200, "", <<s[FindIndex(s, id)]>>)

\* handleStudents under the read lock: json.Marshal(students), w.Write.
ListRead(p) ==
    /\ pc[p] = "cs"
    /\ req[p].method = "LIST"
    /\ resp' = [resp EXCEPT ![p] = ListReply(students)]
    /\ pc' = [pc EXCEPT ![p] = "unlock"]
    /\ UNCHANGED <<students, readers, writer, req, hist>>

\* GET /students/{id} under the read lock: the scan and the response.
GetScan(p) ==
    /\ pc[p] = "cs"
    /\ req[p].method = "GET"
    /\ resp' = [resp EXCEPT ![p] = GetReply(students, req[p].id)]
    /\ pc' = [pc EXCEPT ![p] = "unlock"]
    /\ UNCHANGED <<students, readers, writer, req, hist>>

\* Summary under the read lock: the scan; targetStudent points at the
\* loop's copy of the record (i = 0 stands for the nil pointer).
SummaryScan(p) ==
    /\ pc[p] = "cs"
    /\ req[p].method = "SUMMARY"
    /\ LET i == FindIndex(students, req[p].id)
       IN  req' = [req EXCEPT ![p].i = i,
                              ![p].student = IF i = 0 THEN ZeroStudent
                                             ELSE students[i]]
    /\ pc' = [pc EXCEPT ![p] = "unlock"]
    /\ UNCHANGED <<students, readers, writer, resp, hist>>

\* List and get: the deferred mutex.RUnlock() runs as the handler returns,
\* the response already written.
RUnlock(p) ==
    /\ pc[p] = "unlock"
    /\ req[p].method \in {"LIST", "GET"}
    /\ readers' = readers \ {p}
    /\ Return(p)
    /\ UNCHANGED <<students, writer, hist>>

\* The summary handler going on to the outbound call with the read lock
\* still held.
SummaryRelease_Missing(p) == readers

\* The lock state the summary handler leaves behind at its RUnlock().
SummaryRelease(p) == readers \ {p}

\* Summary: mutex.RUnlock(), then the nil check: 404, or on to the
\* outbound call.
SummaryRUnlock(p) ==
    /\ pc[p] = "unlock"
    /\ req[p].method = "SUMMARY"
    /\ readers' = SummaryRelease(p)
    /\ IF req[p].i = 0
         THEN /\ resp' = [resp EXCEPT ![p] =
                            Reply(404, "Student not found", <<>>)]
              /\ pc' = [pc EXCEPT ![p] = "done"]
         ELSE /\ pc' = [pc EXCEPT ![p] = "call"]
              /\ UNCHANGED resp
    /\ UNCHANGED <<students, writer, req, hist>>

\* func callOllamaAPI(student Student) (string, error), by what the
\* outbound call met: the generated text, or one error per failure.
callOllamaAPI(outcome) ==
    CASE outcome = "ok" -> [summary |-> "summary", err |-> ""]
      [] outcome = "connfail" ->
            [summary |-> "", err |-> "failed to call Ollama API"]
      [] outcome = "badstatus" ->
            [summary |-> "", err |-> "Ollama API returned status"]
      [] outcome = "badbody" ->
            [summary |-> "", err |-> "invalid character"]

\* The summary handler answering 200 whatever callOllamaAPI returned.
SummaryReply_IgnoresError(student, result) ==
    Reply(200, result.summary, <<student>>)

\* The summary handler after callOllamaAPI: 500 carrying the error, or 200
\* with {student, summary}.
SummaryReply(student, result) ==
    IF result.err # "" THEN Reply(500, result.err, <<>>)
    ELSE Reply(200, result.summary, <<student>>)

\* targetStudent pointing into the slice (&students[i]) instead of at the
\* copy: what it reads is whatever the slot holds now.
Target_InSlice(p) ==
    IF req[p].i <= Len(students) THEN students[req[p].i] ELSE req[p].student

\* *targetStudent: the loop variable `student`, a copy made under the lock.
Target(p) == req[p].student

\* callOllamaAPI returns (it may also never return: http.Post has no
\* timeout), and the handler answers.
OllamaReturn(p) ==
    /\ pc[p] = "call"
    /\ \E outcome \in OllamaOutcomes :
         resp' = [resp EXCEPT ![p] =
                    SummaryReply(Target(p), callOllamaAPI(outcome))]
    /\ pc' = [pc EXCEPT ![p] = "done"]
    /\ UNCHANGED <<students, readers, writer, req, hist>>

\* A handler that wrote its response outside the lock returns.
Finish(p) ==
    /\ pc[p] = "done"
    /\ Return(p)
    /\ UNCHANGED <<students, readers, writer, hist>>

\* Every step of a handler other than the entry of a create.
Handle(p) ==
    \/ ListStart(p)
    \/ GetStart(p)
    \/ PutStart(p)
    \/ DeleteStart(p)
    \/ SummaryStart(p)
    \/ MethodNotAllowed(p)
    \/ RLock(p)
    \/ Lock(p)
    \/ CreateAssignId(p)
    \/ CreateAppend(p)
    \/ PutScan(p)
    \/ PutStore(p)
    \/ DeleteScan(p)
    \/ DeleteTruncate(p)
    \/ CreateUnlock(p)
    \/ Unlock(p)
    \/ CreateWrite(p)
    \/ ListRead(p)
    \/ GetScan(p)
    \/ SummaryScan(p)
    \/ RUnlock(p)
    \/ SummaryRUnlock(p)
    \/ OllamaReturn(p)
    \/ Finish(p)

Next == \E p \in Procs : CreateStart(p) \/ Handle(p)

\* The requests served one at a time, on a larger Store.
SeqNext == \E p \in SeqProcs : SeqCreateStart(p) \/ Handle(p)

Spec == Init /\ [][Next]_vars

\* The steps a handler's goroutine takes on its own once scheduled: all of
\* them but the arrival of a request, the two lock acquisitions, and the
\* return of the outbound call.
Run(p) ==
    \/ CreateAssignId(p)
    \/ CreateAppend(p)
    \/ PutScan(p)
    \/ PutStore(p)
    \/ DeleteScan(p)
    \/ DeleteTruncate(p)
    \/ CreateUnlock(p)
    \/ Unlock(p)
    \/ CreateWrite(p)
    \/ ListRead(p)
    \/ GetScan(p)
    \/ SummaryScan(p)
    \/ RUnlock(p)
    \/ SummaryRUnlock(p)
    \/ Finish(p)

\* The Go scheduler runs every runnable goroutine (weak fairness of Run).
\* sync.RWMutex lets no waiter starve: a pending Lock() keeps later
\* RLock() callers out until it is served, and Unlock() wakes the readers
\* that queued behind it (strong fairness of the two acquisitions). No
\* request has to arrive, and http.Post has no timeout: no fairness for
\* the entry steps nor for OllamaReturn.
Fairness ==
    \A p \in Procs :
        /\ WF_vars(Run(p))
        /\ SF_vars(Lock(p))
        /\ SF_vars(RLock(p))

FairCreateStart(p) == CreateStartUpTo(p, FairMaxCreates, FairMaxStudents)

\* The concurrent requests on a Store that sees fewer creates.
FairNext == \E p \in Procs : FairCreateStart(p) \/ Handle(p)

FairSpec == Init /\ [][FairNext]_vars /\ Fairness

SeqSpec == Init /\ [][SeqNext]_vars

(* ---------------------------------------------------------------------- *)
(* Vocabulary of the properties                                            *)
(* ---------------------------------------------------------------------- *)

HasId(s, id) == \E k \in 1..Len(s) : s[k].ID = id

Holds(s, r) == \E k \in 1..Len(s) : s[k] = r

\* The field rules of the data model, stated independently of the code.
FieldsOk(st) ==
    /\ st.Name # ""
    /\ st.Age \in 1..150
    /\ st.Email # ""

\* p takes the step of its write that makes the write complete.
Commits(p) == pc[p] = "cs2" /\ pc'[p] = "unlock"

\* p takes the scan step at the head of its critical section.
Scans(p, method) ==
    pc[p] = "cs" /\ req[p].method = method /\ pc'[p] # "cs"

Reader(p) == req[p].method \in ReadMethods /\ InCS(p)

Writer(p) == req[p].method \in WriteMethods /\ InCS(p)

(* ---------------------------------------------------------------------- *)
(* Properties                                                              *)
(* ---------------------------------------------------------------------- *)

\* C1: whenever no write is in progress, no two records of the Store have
\* the same id.
C1_UniqueIds ==
    writer = NoProc =>
        \A i, j \in 1..Len(students) :
            i # j => students[i].ID # students[j].ID

\* C2: a create stores and returns (201) a record whose id is the number of
\* records before the create plus one; and every write that completes
\* leaves each record of the Store in place, unless the write is a delete of
\* that record's id (then it may be gone) or an update of it (then a record
\* with the id is still there).
C2_CreateAssignsNextId ==
    [][\A p \in Procs :
         /\ (Commits(p) /\ req[p].method = "POST") =>
               /\ req[p].student.ID = Len(committed) + 1
               /\ Holds(ListReply(students').body, req[p].student)
         /\ (pc[p] = "write" /\ pc'[p] = "done") =>
               resp'[p] = Reply(201, "", <<req[p].student>>)
         /\ Commits(p) =>
               \A k \in 1..Len(committed) :
                   /\ \/ req[p].method = "DELETE" /\ req[p].id = committed[k].ID
                      \/ HasId(ListReply(students').body, committed[k].ID)
                   /\ \/ req[p].method \in {"PUT", "DELETE"}
                            /\ req[p].id = committed[k].ID
                      \/ Holds(ListReply(students').body, committed[k])
      ]_vars

\* C2 witness: a create has answered 201 with id 2 into a Store that held
\* one record, and list() would return the new record.
C2_Witness ==
    \E p \in Procs :
        /\ pc[p] = "done" /\ req[p].method = "POST"
        /\ resp[p].status = 201
        /\ resp[p].body[1].ID = 2
        /\ Len(students) = 2
        /\ Holds(ListReply(students).body, resp[p].body[1])

\* C3: the n-th create that completes is assigned id n.
C3_NthCreateGetsIdN ==
    \A p \in Procs :
        (pc[p] = "unlock" /\ req[p].method = "POST") =>
            req[p].student.ID = nCreates

\* C4: once delete(id) has succeeded, get(id) answers 404 and list() has no
\* record with the id (stated on the Store as the delete leaves it).
C4_DeletedIdIsGone ==
    \A p \in Procs :
        (pc[p] = "unlock" /\ req[p].method = "DELETE"
                          /\ resp[p].status = 204) =>
            /\ GetReply(students, req[p].id).status = 404
            /\ ~HasId(ListReply(students).body, req[p].id)

\* C5: once update(id, X) has succeeded, get(id) answers 200 with the
\* record whose id is id and whose name, age and email are those of X
\* (stated on the Store as the update leaves it).
C5_UpdateThenGet ==
    \A p \in Procs :
        (pc[p] = "unlock" /\ req[p].method = "PUT"
                          /\ resp[p].status = 200) =>
            GetReply(students, req[p].id) =
                Reply(200, "", <<Student(req[p].id, req[p].student.Name,
                                         req[p].student.Age,
                                         req[p].student.Email)>>)

\* C5 witness: an update of the second record of a two-record Store has
\* succeeded, and a get of its id would answer with the fields sent.
C5_Witness ==
    \E p \in Procs :
        /\ pc[p] = "unlock" /\ req[p].method = "PUT"
        /\ resp[p].status = 200
        /\ Len(students) = 2
        /\ students[1].ID = 1 /\ req[p].id = 2
        /\ req[p].student.Name = "Jane2"
        /\ GetReply(students, 2).body = <<req[p].student>>

\* C6: a get, update or delete whose id no record has answers 404, and the
\* failed update or delete goes straight to its unlock with the Store as
\* it was.
C6_MissingIdIs404 ==
    [][\A p \in Procs :
         /\ (Scans(p, "GET") /\ ~HasId(students, req[p].id)) =>
               /\ resp'[p].status = 404
               /\ students' = students
         /\ \A m \in {"PUT", "DELETE"} :
               (Scans(p, m) /\ ~HasId(students, req[p].id)) =>
                   /\ resp'[p].status = 404
                   /\ pc'[p] = "unlock"
                   /\ students' = students
      ]_vars

\* C6 witness: an update or delete of an id that a non-empty Store does
\* not hold has answered 404.
C6_Witness ==
    \E p \in Procs :
        /\ pc[p] = "unlock" /\ req[p].method \in {"PUT", "DELETE"}
        /\ resp[p].status = 404
        /\ students # <<>>
        /\ ~HasId(students, req[p].id)

\* C7: a create whose candidate breaks a field rule answers 400 at once
\* and changes nothing: no record appended, no id consumed.
C7_InvalidCreateRejected ==
    [][\A p \in Procs :
         (pc[p] = "idle" /\ req'[p].method = "POST"
                         /\ ~FieldsOk(req'[p].student)) =>
             /\ pc'[p] = "done"
             /\ resp'[p].status = 400
             /\ students' = students
             /\ committed' = committed
             /\ nCreates' = nCreates
      ]_vars

\* C7 witness: a create with age 151 has been answered 400 while the Store
\* holds a record.
C7_Witness ==
    \E p \in Procs :
        /\ pc[p] = "done" /\ req[p].method = "POST"
        /\ req[p].student.Age = 151
        /\ resp[p].status = 400
        /\ students # <<>>

\* C8: whenever no write is in progress the Store is what the completed
\* writes, applied one after the other as atomic operations, make it; and
\* a list or get inside its critical section sees exactly that Store and
\* answers from it.
C8_ReadsSeeCommittedStore ==
    /\ writer = NoProc => students = committed
    /\ \A p \in Procs :
          Reader(p) =>
              /\ students = committed
              /\ (pc[p] = "unlock" /\ req[p].method = "LIST") =>
                     resp[p] = ListReply(committed)
              /\ (pc[p] = "unlock" /\ req[p].method = "GET") =>
                     resp[p] = GetReply(committed, req[p].id)

\* C8 witness: a delete is half done (the slice differs from every
\* serialization) while a list request waits for the lock.
C8_Witness ==
    \E p, q \in Procs :
        /\ pc[p] = "cs2" /\ req[p].method = "DELETE"
        /\ students # committed
        /\ students # AtomicDelete(committed, req[p].id)
        /\ pc[q] = "lock" /\ req[q].method = "LIST"

\* C9: while a create, update or delete is inside its critical section no
\* other request is inside one.
C9_WritersExclude ==
    \A p, q \in Procs :
        (p # q /\ Writer(p)) => ~InCS(q)

\* C9 witness: two readers are inside their critical sections at once.
C9_Witness ==
    \E p, q \in Procs :
        /\ p # q
        /\ Reader(p) /\ Reader(q)
        /\ req[p].method = "SUMMARY" /\ req[q].method = "LIST"

\* C10: a summary request waiting on the Summarizer holds the lock in no
\* mode, and a request waiting for the lock is let in unless some third
\* request holds it.
C10_NoLockDuringCall ==
    \A p \in Procs :
        pc[p] = "call" =>
            /\ p \notin readers
            /\ writer # p
            /\ \A q \in Procs \ {p} :
                  (pc[q] = "lock" /\ \A r \in Procs \ {p, q} : ~InCS(r)) =>
                      ENABLED (Lock(q) \/ RLock(q))

\* C10 witness: a delete is inside its critical section while a summary
\* request waits on the Summarizer.
C10_Witness ==
    \E p, q \in Procs :
        /\ pc[p] = "call"
        /\ pc[q] = "cs2" /\ req[q].method = "DELETE" /\ writer = q

\* C11: a response is written only by a handler that holds the lock in no
\* mode (the write to the client is not part of any critical section).
C11_ResponseWrittenOutsideLock ==
    \A p \in Procs :
        resp[p] # NoResp => (p \notin readers /\ writer # p)

\* C12: list() answers with all the records of the Store, in the order of
\* their creation: the slots of the Store are in increasing rank of
\* creation whenever no write is in progress, whatever updates and deletes
\* came in between.
C12_ListInInsertionOrder ==
    /\ Len(born) = Len(students)
    /\ writer = NoProc =>
          \A i, j \in 1..Len(born) : i < j => born[i] < born[j]
    /\ \A p \in Procs :
          (pc[p] = "unlock" /\ req[p].method = "LIST") =>
              resp[p].body = students

\* C12 witness: list() has answered with the second and third records
\* created, the first one deleted, the second one updated to other fields
\* than the third.
C12_Witness ==
    \E p \in Procs :
        /\ pc[p] = "unlock" /\ req[p].method = "LIST"
        /\ born = <<2, 3>>
        /\ Len(resp[p].body) = 2
        /\ resp[p].body[1].ID = 2 /\ resp[p].body[2].ID = 3
        /\ resp[p].body[1].Name # resp[p].body[2].Name

\* The error texts of the three ways the Summarizer fails.
SummarizerErrors ==
    {"failed to call Ollama API", "Ollama API returned status",
     "invalid character"}

\* C13: the summary route answers 404 when no record has the id, 500 with
\* the cause when the Summarizer fails, and otherwise 200 with the record
\* and the summary; none of its steps changes the Store.
C13_SummaryOutcomes ==
    [][\A p \in Procs :
         (req[p].method = "SUMMARY" /\ pc'[p] # pc[p]) =>
             /\ students' = students
             /\ committed' = committed
             /\ (pc[p] = "unlock" /\ ~HasId(students, req[p].id)) =>
                   pc'[p] = "done" /\ resp'[p].status = 404
             /\ (pc[p] = "unlock" /\ HasId(students, req[p].id)) =>
                   pc'[p] = "call" /\ resp'[p] = NoResp
             /\ pc[p] = "call" =>
                   /\ pc'[p] = "done"
                   /\ \/ /\ resp'[p].status = 500
                         /\ resp'[p].msg \in SummarizerErrors
                      \/ /\ resp'[p].status = 200
                         /\ resp'[p].msg = "summary"
                         /\ resp'[p].body = <<req[p].student>>
                         /\ req[p].student.ID = req[p].id
      ]_vars

\* C13 witness: one summary request has been answered 200 with the record,
\* another 500, on a Store that holds the record.
C13_Witness ==
    \E p, q \in Procs :
        /\ pc[p] = "done" /\ req[p].method = "SUMMARY"
        /\ resp[p].status = 200
        /\ Holds(students, resp[p].body[1])
        /\ pc[q] = "done" /\ req[q].method = "SUMMARY"
        /\ resp[q].status = 500

\* The rules of the Validator in their order, and the message of each.
RuleOk(k, st) ==
    CASE k = 1 -> st.Name # ""
      [] k = 2 -> st.Age >= 1 /\ st.Age <= 150
      [] k = 3 -> st.Email # ""

RuleMessage(k) ==
    CASE k = 1 -> "name is required"
      [] k = 2 -> "age must be between 1 and 150"
      [] k = 3 -> "email is required"

\* The reference: the message of the first rule, in order, that fails.
FirstFailure(st) ==
    LET failing == {k \in 1..3 : ~RuleOk(k, st)}
    IN  IF failing = {} THEN ""
        ELSE RuleMessage(CHOOSE k \in failing : \A j \in failing : k <= j)

\* The 400 messages of the steps before validation.
ParseErrors ==
    {"Invalid ID", "Invalid JSON data", "Invalid form data",
     "Age is required", "Invalid age"}

\* C14: for every candidate a create or an update validated, the verdict
\* is the reference's: rejected with the message of the first failing rule
\* (name, then age, then email), or let through when no rule fails.
C14_FirstFailureWins ==
    \A p \in Procs :
        (req[p].method \in {"POST", "PUT"}
            /\ ~(pc[p] = "done" /\ resp[p].msg \in ParseErrors)) =>
            IF pc[p] = "done" /\ resp[p].status = 400
              THEN /\ resp[p].msg # ""
                   /\ resp[p].msg = FirstFailure(req[p].student)
              ELSE FirstFailure(req[p].student) = ""

\* C14 witness: a create and an update, each with an empty name and an age
\* out of range, have both been answered with the name rule's message.
C14_Witness ==
    \E p, q \in Procs :
        /\ pc[p] = "done" /\ req[p].method = "POST"
        /\ pc[q] = "done" /\ req[q].method = "PUT"
        /\ \A g \in {p, q} :
              /\ req[g].student.Name = "" /\ req[g].student.Age = 0
              /\ resp[g] = Reply(400, "name is required", <<>>)

\* C15: the step that completes a successful update turns the Store as it
\* was before the update into the same sequence with one record replaced:
\* the record at one position, which has the path id, now has the path id
\* and the name, age and email of the request; length, order and all other
\* records are as before, and the answer is 200.
C15_UpdateFrame ==
    [][\A p \in Procs :
         (req[p].method = "PUT" /\ Commits(p)) =>
            \E i \in 1..Len(committed) :
               /\ committed[i].ID = req[p].id
               /\ students' =
                     [committed EXCEPT ![i] =
                        Student(req[p].id, req[p].student.Name,
                                req[p].student.Age, req[p].student.Email)]
               /\ born' = born
               /\ resp'[p].status = 200]_vars

\* C15 witness: an update of id 1 by the replacement whose body says
\* "id": 2 has completed on a Store of three; record 1 has the new fields
\* and the record with id 2 is untouched.
C15_Witness ==
    \E p \in Procs :
        /\ pc[p] = "unlock" /\ req[p].method = "PUT"
        /\ resp[p].status = 200 /\ req[p].id = 1
        /\ Len(students) = 3
        /\ students[1] = Student(1, "Jane2", 150, "jane2@x.com")
        /\ students[2] = Student(2, "Jane", 1, "jane@x.com")

\* C16: the step that completes a successful delete turns the Store as it
\* was before the delete into the same sequence with one position removed:
\* the record at that position has the given id, the others keep content
\* and order, the count drops by one, and the answer is 204.
C16_DeleteFrame ==
    [][\A p \in Procs :
         (req[p].method = "DELETE" /\ Commits(p)) =>
            \E i \in 1..Len(committed) :
               /\ committed[i].ID = req[p].id
               /\ students' = RemoveAt(committed, i)
               /\ Len(students') = Len(committed) - 1
               /\ resp'[p].status = 204]_vars

\* C16 witness: a delete of id 1 has completed on a Store of three, and
\* the two records that followed it are left, in their order.
C16_Witness ==
    \E p \in Procs :
        /\ pc[p] = "unlock" /\ req[p].method = "DELETE"
        /\ resp[p].status = 204 /\ req[p].id = 1
        /\ Len(students) = 2 /\ born = <<2, 3>>
        /\ students[1].ID = 2 /\ students[2].ID = 3
        /\ students[1].Name # students[2].Name

\* C17: a PUT is decided in the order id, body, validation, lookup. Its
\* first step either answers 400 (bad id, malformed body, or the first
\* failing rule of the candidate) or goes on to the lock with a valid
\* candidate, and in both cases leaves lock and Store alone; 404 is
\* answered only by the scan under the write lock, so only for a valid
\* candidate, and exactly when no record has the id.
C17_PutOrder ==
    [][\A p \in Procs :
         (req'[p].method = "PUT" /\ pc'[p] # pc[p]) =>
            /\ pc[p] = "idle" =>
                  /\ readers' = readers /\ writer' = writer
                  /\ students' = students
                  /\ \/ /\ pc'[p] = "done"
                        /\ resp'[p].status = 400
                        /\ \/ resp'[p].msg = "Invalid ID" /\ req'[p].id = 0
                           \/ resp'[p].msg \in ParseErrors \ {"Invalid ID"}
                           \/ /\ resp'[p].msg # ""
                              /\ resp'[p].msg = FirstFailure(req'[p].student)
                     \/ /\ pc'[p] = "lock"
                        /\ resp'[p] = NoResp
                        /\ FirstFailure(req'[p].student) = ""
            /\ pc[p] # "idle" => resp'[p].status # 400
            /\ resp'[p].status = 404 =>
                  /\ pc[p] = "cs" /\ writer = p
                  /\ FirstFailure(req[p].student) = ""
                  /\ ~HasId(students, req[p].id)
            /\ (pc[p] = "cs" /\ ~HasId(students, req[p].id)) =>
                  resp'[p].status = 404]_vars

\* C17 witness: on a Store that has no record with id 2, one PUT on id 2
\* with an empty name has been answered 400 by the name rule while another
\* PUT on id 2, with a valid body, has been answered 404.
C17_Witness ==
    \E p, q \in Procs :
        /\ Len(students) > 0 /\ ~HasId(students, 2)
        /\ pc[p] = "done" /\ req[p].method = "PUT" /\ req[p].id = 2
        /\ req[p].student.Name = ""
        /\ resp[p] = Reply(400, "name is required", <<>>)
        /\ pc[q] = "unlock" /\ req[q].method = "PUT" /\ req[q].id = 2
        /\ resp[q].status = 404

\* C18: every record in the Store, at every moment (also inside a writer's
\* critical section), has a non-empty name, an age from 1 to 150 and a
\* non-empty email.
C18_StoredRecordsAreValid ==
    \A k \in 1..Len(students) : FieldsOk(students[k])

\* C18 witness: an update is half written (the record has the new name and
\* still the old age and email) next to a created record, and the ages at
\* both ends of the range are in the Store.
C18_Witness ==
    \E p \in Procs :
        /\ pc[p] = "cs2" /\ req[p].method = "PUT"
        /\ Len(students) = 2
        /\ students[req[p].i].Name # committed[req[p].i].Name
        /\ students[req[p].i].Email = committed[req[p].i].Email
        /\ \E j, k \in 1..2 : students[j].Age = 1 /\ students[k].Age = 150

\* C19: the summary handler's student is the first record with the id as
\* the Store held it at the scan under the read lock; from then until the
\* handler returns no step of any request changes it, the 200 response
\* carries exactly it, and while the call is pending a write to that id
\* waiting for the lock is let in unless a third request holds the lock.
C19_SummaryUsesSnapshot ==
    [][\A p \in Procs :
         req[p].method = "SUMMARY" =>
            /\ (Scans(p, "SUMMARY") /\ HasId(students, req[p].id)) =>
                  /\ p \in readers /\ students = committed
                  /\ \E k \in 1..Len(students) :
                        /\ req'[p].student = students[k]
                        /\ students[k].ID = req[p].id
                        /\ \A j \in 1..(k - 1) : students[j].ID # req[p].id
            /\ (pc[p] \in {"unlock", "call", "done"} /\ pc'[p] # "idle") =>
                  req'[p].student = req[p].student
            /\ (pc[p] = "call" /\ resp'[p].status = 200) =>
                  resp'[p].body = <<req[p].student>>
            /\ pc[p] = "call" =>
                  \A q \in Procs \ {p} :
                     (/\ pc[q] = "lock"
                      /\ req[q].method \in {"PUT", "DELETE"}
                      /\ req[q].id = req[p].id
                      /\ \A r \in Procs \ {p, q} : ~InCS(r)) =>
                         ENABLED Lock(q)]_vars

\* C19 witness: a summary of id 1 has answered 200 with the record as it
\* was looked up, while an update of id 1 that ran during the call has
\* completed and not yet returned, so the Store no longer has that record.
C19_Witness ==
    \E p, q \in Procs :
        /\ pc[p] = "done" /\ req[p].method = "SUMMARY" /\ req[p].id = 1
        /\ resp[p].status = 200
        /\ resp[p].body = <<Student(1, "Jane", 1, "jane@x.com")>>
        /\ pc[q] = "unlock" /\ req[q].method = "PUT" /\ req[q].id = 1
        /\ resp[q].status = 200
        /\ students[1] = Student(1, "Jane2", 150, "jane2@x.com")

\* The lock is held by exactly the requests between their acquisition and
\* their release.
LockFollowsPosition ==
    \A p \in Procs :
        /\ p \in readers <=> (req[p].method \in ReadMethods /\ InCS(p))
        /\ writer = p <=> (req[p].method \in WriteMethods /\ InCS(p))

\* Every request in flight can take a step, or waits for the lock behind a
\* holder that can.
NoRequestStuck ==
    \A p \in Procs :
        pc[p] # "idle" =>
            \/ ENABLED Handle(p)
            \/ /\ pc[p] = "lock"
               /\ \E q \in Procs \ {p} : InCS(q) /\ ENABLED Run(q)

\* A request enters the critical section only from waiting for the lock,
\* waits for the lock only as its first step, and once out of the critical
\* section does not come back before it returns.
LockedOncePerRequest ==
    \A p \in Procs :
        /\ (pc'[p] = "lock" /\ pc[p] # "lock") => pc[p] = "idle"
        /\ (pc'[p] = "cs" /\ pc[p] # "cs") => pc[p] = "lock"
        /\ (InCS(p) /\ ~InCS(p)') =>
              /\ p \notin readers' /\ writer' # p
              /\ pc'[p] \in {"idle", "write", "call", "done"}
        /\ (pc[p] \in {"write", "call", "done"} /\ pc'[p] # pc[p]) =>
              pc'[p] \in {"idle", "done"}

\* C20: the lock is held exactly inside critical sections, each request
\* enters its critical section at most once and leaves it with the lock
\* released on every path, no request in flight is ever stuck, and under
\* fair scheduling every create, update, delete, get and list request gets
\* its response.
C20_LockReleasedAndLive ==
    /\ [](LockFollowsPosition /\ NoRequestStuck)
    /\ [][LockedOncePerRequest]_vars
    /\ \A p \in Procs :
          (req[p].method \in {"POST", "PUT", "DELETE", "GET", "LIST"})
              ~> (resp[p] # NoResp)

\* C20 witness: an update on its 404 path still holds the write lock, and
\* a list request waits for the lock behind it, unable to take a step
\* until the update releases.
C20_Witness ==
    \E p, q \in Procs :
        /\ pc[p] = "unlock" /\ req[p].method = "PUT"
        /\ resp[p].status = 404 /\ writer = p
        /\ pc[q] = "lock" /\ req[q].method = "LIST"
        /\ ~ENABLED Handle(q)

====
